---- MODULE Spec2Model ----
(***************************************************************************)
(* Model of package assert (assert/assert.go): the entry points Assert,    *)
(* Check, NilError and Equal, the dispatch engine assert(), and its        *)
(* helpers runCompareFunc and logFailureFromBool, acting on a TestingT.    *)
(*                                                                         *)
(* A test unit makes up to MaxCalls assertion calls one after the other on *)
(* the same TestingT.  Every call is followed through the positions of the *)
(* code (pc); the calls the engine makes on its collaborators are recorded *)
(* in order in `events`.  Strings are sequences of text fragments, and     *)
(* string concatenation is \o.                                             *)
(***************************************************************************)
EXTENDS Naturals, Sequences, FiniteSets, TLC

VARIABLES
    pc,          \* position of the test unit / of the engine
    tHalts,      \* whether t.FailNow() unwinds the test unit (testing.T) or returns (a fake)
    tIsHelper,   \* whether t also implements helperT
    tFailed,     \* t: the failed flag
    tLog,        \* t: the messages logged so far, oldest first
    calls,       \* assertion calls the test unit has completed
    entry,       \* entry point of the current call
    failer,      \* assert(): parameter failer
    argsFilter,  \* assert(): parameter argsFilter
    comparison,  \* assert(): parameter comparison
    msgAndArgs,  \* assert(): parameter msgAndArgs
    success,     \* assert(): local variable success
    ret,         \* value returned by assert(): "none", "true" or "false"
    callerRet,   \* value the entry point handed back to the test unit
    events,      \* calls made during the current call, in order
    preLog,      \* tLog when the current call began
    preFailed    \* tFailed when the current call began

vars == <<pc, tHalts, tIsHelper, tFailed, tLog, calls, entry, failer, argsFilter,
          comparison, msgAndArgs, success, ret, callerRet, events, preLog, preFailed>>

\* Number of assertion calls of one test unit.
MaxCalls == 2

\* const failureMessage
failureMessage == "assertion failed: "

----------------------------------------------------------------------------
(* Inputs *)

LegacyMessages == {<<"msg">>, <<"did not match pattern">>}

\* A comparison argument: its runtime shape and what evaluating it yields.
\* "other" stands for any type the type switch of assert() does not list.
\*   bool               success is the value itself
\*   legacy             func() (success bool, message string)
\*   Comparison,
\*   funcResult         func() cmp.Result: Success, or a failure with message
BoolOrComparison ==
    {[kind |-> "bool", success |-> b, message |-> <<>>] : b \in BOOLEAN}
    \cup {[kind |-> "legacy", success |-> b, message |-> m] :
              b \in BOOLEAN, m \in LegacyMessages}
    \cup {[kind |-> k, success |-> TRUE, message |-> <<>>] :
              k \in {"Comparison", "funcResult"}}
    \cup {[kind |-> k, success |-> FALSE, message |-> <<"comparison failed">>] :
              k \in {"Comparison", "funcResult"}}
    \cup {[kind |-> "other", success |-> FALSE, message |-> <<>>]}

\* cmp.Equal(x, y): succeeds iff x == y, otherwise fails with a message that
\* shows both values.
cmpEqual(x, y) ==
    [kind    |-> "Comparison",
     success |-> (x = y),
     message |-> IF x = y THEN <<>> ELSE <<ToString(x), " != ", ToString(y)>>]

\* cmp.NilError(err): succeeds iff err is nil ("" here), otherwise fails with a
\* message that shows the error.
cmpNilError(err) ==
    [kind    |-> "Comparison",
     success |-> (err = ""),
     message |-> IF err = "" THEN <<>> ELSE <<"error is not nil: ", err>>]

EqualValues == {1, 2}
Errors == {"", "boom"}

\* msgAndArgs ...interface{}
MsgAndArgs == {<<>>, <<"context">>}

\* format.WithCustomMessage(source, msgAndArgs...): the base message, followed
\* by the extra parts after a single space when there are any.
WithCustomMessage(source, args) ==
    IF args = <<>> THEN source ELSE source \o <<" ">> \o args

\* source.FormattedCallExprArg(stackIndex, argPos): the text of the argument
\* expression at the call site, or an error.
FormattedCallExprArg ==
    {[ok |-> TRUE,  source |-> "total != 10", err |-> ""],
     [ok |-> FALSE, source |-> "",            err |-> "failed to read source file"]}

----------------------------------------------------------------------------
(* Events *)

Ev(op, msg) == [op |-> op, msg |-> msg]

LogEvents(msgs) == [i \in 1..Len(msgs) |-> Ev("Log", msgs[i])]

\* if ht, ok := t.(helperT); ok { ht.Helper() }
HelperEvents == IF tIsHelper THEN <<Ev("Helper", <<>>)>> ELSE <<>>


----------------------------------------------------------------------------
(* Pure parts of the code *)

\* Variant: Assert escalates with t.Fail.
AssertFailer_Fail == "Fail"

\* Assert: assert(t, t.FailNow, ...)
AssertFailer == "FailNow"

\* Variant: Check escalates with t.FailNow.
CheckFailer_FailNow == "FailNow"

\* Check: assert(t, t.Fail, ...)
CheckFailer == "Fail"

\* NilError: assert(t, t.FailNow, ...)
NilErrorFailer == "FailNow"

\* Variant: Equal escalates with t.Fail.
EqualFailer_Fail == "Fail"

\* Equal: assert(t, t.FailNow, ...)
EqualFailer == "FailNow"

\* What an entry point hands back to the test unit, given what assert()
\* returned: only Check has a result.
EntryResult(e, r) == IF e = "Check" THEN r ELSE "none"

\* Variant: the type switch has no default case, an unrecognized comparison
\* falls through to "if success".
DefaultCase_FallThrough == "afterSwitch"

\* assert(): where the default case of the type switch leads.
DefaultCase == "panicked"

\* assert(): the case of the type switch a comparison falls in.
SwitchCase(c) ==
    CASE c.kind = "bool"       -> IF c.success THEN "returnTrue" ELSE "logFailureFromBool"
      [] c.kind = "legacy"     -> "runCompareFunc"
      [] c.kind = "Comparison" -> "runComparison"
      [] c.kind = "funcResult" -> "runComparison"
      [] OTHER                 -> DefaultCase

\* Variant: logFailureFromBool returns after logging the recovery error.
logFailureFromBoolLogs_ReturnOnError(rec, args) ==
    IF ~rec.ok
    THEN << <<rec.err>> >>
    ELSE << WithCustomMessage(<<failureMessage, rec.source, " is false">>, args) >>

\* Variant: logFailureFromBool ignores the recovery error.
logFailureFromBoolLogs_DropError(rec, args) ==
    << WithCustomMessage(<<failureMessage, rec.source, " is false">>, args) >>

\* logFailureFromBool: the messages it logs, in order, given the outcome rec of
\* source.FormattedCallExprArg.
logFailureFromBoolLogs(rec, args) ==
    (IF ~rec.ok THEN << <<rec.err>> >> ELSE <<>>)
    \o << WithCustomMessage(<<failureMessage, rec.source, " is false">>, args) >>

\* Variant: runCompareFunc logs the message whatever f() returned.
runCompareFuncLogs_Always(f, args) ==
    << WithCustomMessage(<<failureMessage>> \o f.message, args) >>

\* Variant: runCompareFunc logs the message without failureMessage.
runCompareFuncLogs_NoPrefix(f, args) ==
    IF ~f.success THEN << WithCustomMessage(f.message, args) >> ELSE <<>>

\* Variant: runCompareFunc logs nothing.
runCompareFuncLogs_Silent(f, args) == <<>>

\* runCompareFunc: the messages it logs, given the (success, message) that f()
\* returned.
runCompareFuncLogs(f, args) ==
    IF ~f.success
    THEN << WithCustomMessage(<<failureMessage>> \o f.message, args) >>
    ELSE <<>>

\* runComparison: the messages it logs, given the Result that f() returned.
runComparisonLogs(f, args) ==
    IF ~f.success
    THEN << WithCustomMessage(<<failureMessage>> \o f.message, args) >>
    ELSE <<>>

\* Variant: the test of success is inverted.
SuccessTarget_Inverted(s) == IF s THEN "failer" ELSE "returnTrue"

\* assert(): "if success { return true }"
SuccessTarget(s) == IF s THEN "returnTrue" ELSE "failer"

----------------------------------------------------------------------------
(* The test unit and the engine *)

Init ==
    /\ pc = "idle"
    /\ tHalts \in BOOLEAN
    /\ tIsHelper \in BOOLEAN
    /\ tFailed = FALSE
    /\ tLog = <<>>
    /\ calls = 0
    /\ entry = "none"
    /\ failer = "none"
    /\ argsFilter = "none"
    /\ comparison = [kind |-> "bool", success |-> TRUE, message |-> <<>>]
    /\ msgAndArgs = <<>>
    /\ success = FALSE
    /\ ret = "none"
    /\ callerRet = "none"
    /\ events = <<>>
    /\ preLog = <<>>
    /\ preFailed = FALSE

\* An entry point is called by the test unit, calls Helper() when t is a
\* helperT, and calls assert() with its fixed failer and argument filter.
Enter(e, f, filter, c, m) ==
    /\ pc = "idle"
    /\ calls < MaxCalls
    /\ pc' = "assert"
    /\ entry' = e
    /\ failer' = f
    /\ argsFilter' = filter
    /\ comparison' = c
    /\ msgAndArgs' = m
    /\ success' = FALSE
    /\ ret' = "none"
    /\ callerRet' = "none"
    /\ events' = HelperEvents
    /\ preLog' = tLog
    /\ preFailed' = tFailed
    /\ UNCHANGED <<tHalts, tIsHelper, tFailed, tLog, calls>>

\* func Assert(t, comparison, msgAndArgs...)
Assert_(c, m) == Enter("Assert", AssertFailer, "filterExprArgsFromComparison", c, m)

\* func Check(t, comparison, msgAndArgs...) bool
Check(c, m) == Enter("Check", CheckFailer, "filterExprArgsFromComparison", c, m)

\* func NilError(t, err, msgAndArgs...)
NilError(err, m) ==
    Enter("NilError", NilErrorFailer, "filterExprExcludeFirst", cmpNilError(err), m)

\* func Equal(t, x, y, msgAndArgs...)
Equal(x, y, m) ==
    Enter("Equal", EqualFailer, "filterExprExcludeFirst", cmpEqual(x, y), m)

\* assert(): Helper(), "var success bool", and the type switch up to the call
\* it makes (or the return true of a true bool, or the panic).
assertSwitch ==
    /\ pc = "assert"
    /\ success' = FALSE
    /\ LET case == SwitchCase(comparison) IN
        /\ pc' = IF case = "returnTrue" THEN "returned" ELSE case
        /\ ret' = IF case = "returnTrue" THEN "true" ELSE ret
        /\ events' = events \o HelperEvents
                       \o (IF case = "panicked" THEN <<Ev("panic", <<>>)>> ELSE <<>>)
    /\ UNCHANGED <<tHalts, tIsHelper, tFailed, tLog, calls, entry, failer, argsFilter,
                   comparison, msgAndArgs, callerRet, preLog, preFailed>>

\* logFailureFromBool(t, msgAndArgs...)
logFailureFromBool ==
    /\ pc = "logFailureFromBool"
    /\ \E rec \in FormattedCallExprArg :
         LET logs == logFailureFromBoolLogs(rec, msgAndArgs) IN
           /\ tLog' = tLog \o logs
           /\ events' = events \o <<Ev("FormattedCallExprArg",
                                         IF rec.ok THEN <<>> ELSE <<rec.err>>)>>
                          \o LogEvents(logs)
    /\ pc' = "afterSwitch"
    /\ UNCHANGED <<tHalts, tIsHelper, tFailed, calls, entry, failer, argsFilter,
                   comparison, msgAndArgs, success, ret, callerRet, preLog, preFailed>>

\* success = runCompareFunc(t, check, msgAndArgs...)
runCompareFunc ==
    /\ pc = "runCompareFunc"
    /\ LET logs == runCompareFuncLogs(comparison, msgAndArgs) IN
         /\ tLog' = tLog \o logs
         /\ events' = events \o HelperEvents \o <<Ev("f", <<>>)>> \o LogEvents(logs)
    /\ success' = comparison.success
    /\ pc' = "afterSwitch"
    /\ UNCHANGED <<tHalts, tIsHelper, tFailed, calls, entry, failer, argsFilter,
                   comparison, msgAndArgs, ret, callerRet, preLog, preFailed>>

\* success = runComparison(t, argsFilter, check, msgAndArgs...)
runComparison ==
    /\ pc = "runComparison"
    /\ LET logs == runComparisonLogs(comparison, msgAndArgs) IN
         /\ tLog' = tLog \o logs
         /\ events' = events \o HelperEvents \o <<Ev("f", <<>>)>> \o LogEvents(logs)
    /\ success' = comparison.success
    /\ pc' = "afterSwitch"
    /\ UNCHANGED <<tHalts, tIsHelper, tFailed, calls, entry, failer, argsFilter,
                   comparison, msgAndArgs, ret, callerRet, preLog, preFailed>>

\* assert(): "if success { return true }"
assertResult ==
    /\ pc = "afterSwitch"
    /\ LET target == SuccessTarget(success) IN
        /\ pc' = IF target = "returnTrue" THEN "returned" ELSE target
        /\ ret' = IF target = "returnTrue" THEN "true" ELSE ret
    /\ UNCHANGED <<tHalts, tIsHelper, tFailed, tLog, calls, entry, failer, argsFilter,
                   comparison, msgAndArgs, success, callerRet, events, preLog, preFailed>>

\* assert(): "failer()".  t.Fail() marks the test failed and returns;
\* t.FailNow() marks it failed and, on a TestingT that halts, unwinds the test
\* unit so that nothing after it runs.
callFailer ==
    /\ pc = "failer"
    /\ tFailed' = TRUE
    /\ events' = events \o <<Ev(failer, <<>>)>>
    /\ pc' = IF failer = "FailNow" /\ tHalts THEN "halted" ELSE "returnFalse"
    /\ UNCHANGED <<tHalts, tIsHelper, tLog, calls, entry, failer, argsFilter,
                   comparison, msgAndArgs, success, ret, callerRet, preLog, preFailed>>

\* assert(): "return false"
assertReturnFalse ==
    /\ pc = "returnFalse"
    /\ ret' = "false"
    /\ pc' = "returned"
    /\ UNCHANGED <<tHalts, tIsHelper, tFailed, tLog, calls, entry, failer, argsFilter,
                   comparison, msgAndArgs, success, callerRet, events, preLog, preFailed>>

\* The entry point returns to the test unit, which goes on to its next
\* statement.
entryReturn ==
    /\ pc = "returned"
    /\ callerRet' = EntryResult(entry, ret)
    /\ calls' = calls + 1
    /\ pc' = "idle"
    /\ UNCHANGED <<tHalts, tIsHelper, tFailed, tLog, entry, failer, argsFilter,
                   comparison, msgAndArgs, success, ret, events, preLog, preFailed>>

Next ==
    \/ \E c \in BoolOrComparison, m \in MsgAndArgs : Assert_(c, m)
    \/ \E c \in BoolOrComparison, m \in MsgAndArgs : Check(c, m)
    \/ \E err \in Errors, m \in MsgAndArgs : NilError(err, m)
    \/ \E x \in EqualValues, y \in EqualValues, m \in MsgAndArgs : Equal(x, y, m)
    \/ assertSwitch
    \/ logFailureFromBool
    \/ runCompareFunc
    \/ runComparison
    \/ assertResult
    \/ callFailer
    \/ assertReturnFalse
    \/ entryReturn

Spec == Init /\ [][Next]_vars

----------------------------------------------------------------------------
(* Vocabulary of the properties *)

\* Number of calls of op made during the current call.
Count(op) == Cardinality({i \in DOMAIN events : events[i].op = op})

\* The messages the current call has logged, in order.
Logged == SubSeq(tLog, Len(preLog) + 1, Len(tLog))

\* A text fragment occurs in a message.
Contains(msg, part) == \E i \in DOMAIN msg : msg[i] = part

\* A call is in progress or was made.
Called == entry # "none"

\* assert() has returned to the entry point (and maybe that to the test unit).
Returned == Called /\ (pc = "returned" \/ pc = "idle")

\* The current call is over: it returned, halted the test unit or panicked.
Over == Returned \/ pc = "halted" \/ pc = "panicked"

Recognized == comparison.kind \in {"bool", "legacy", "Comparison", "funcResult"}

Fails == Called /\ Recognized /\ ~comparison.success

Succeeds == Called /\ Recognized /\ comparison.success

\* Source-expression recovery was invoked and returned an error.
RecoveryFailed ==
    \E i \in DOMAIN events :
        events[i].op = "FormattedCallExprArg" /\ events[i].msg # <<>>

\* The text of that error.
RecoveryError ==
    LET i == CHOOSE i \in DOMAIN events :
                 events[i].op = "FormattedCallExprArg" /\ events[i].msg # <<>>
    IN events[i].msg[1]

----------------------------------------------------------------------------
(* Properties *)

\* C1 as stated: for a bool comparison the call returns true iff the bool is
\* true, and when it is false t.Log is invoked exactly once and the failer
\* exactly once, also when source-expression recovery returns an error.
C1_LogOnceAlways ==
    (Over /\ comparison.kind = "bool") =>
        /\ (ret = "true") <=> comparison.success
        /\ ~comparison.success =>
              /\ Count("Log") = 1
              /\ Count(failer) = 1
              /\ Count("Fail") + Count("FailNow") = 1

\* C1 amended: for a bool comparison the call returns true iff the bool is
\* true; when it is false the failer is invoked exactly once, and t.Log is
\* invoked exactly once when recovery succeeds and exactly twice (the raw error
\* text, then the failure message) when recovery returns an error.
C1_LogOncePlusRecoveryError ==
    (Over /\ comparison.kind = "bool") =>
        /\ (ret = "true") <=> comparison.success
        /\ ~comparison.success =>
              /\ Count("Log") = IF RecoveryFailed THEN 2 ELSE 1
              /\ Len(Logged) = Count("Log")
              /\ RecoveryFailed => Logged[1] = <<RecoveryError>>
              /\ Count(failer) = 1
              /\ Count("Fail") + Count("FailNow") = 1

C1_Witness ==
    /\ Over /\ comparison.kind = "bool" /\ ~comparison.success
    /\ RecoveryFailed
    /\ Count("Log") = 2
    /\ Count(failer) = 1

\* C2: a failing comparison of any shape under Check calls t.Fail() exactly
\* once and never t.FailNow(), and false is returned to the caller, which goes
\* on executing.
C2_CheckEscalation ==
    (entry = "Check") =>
        /\ Count("FailNow") = 0
        /\ pc # "halted"
        /\ (Over /\ Fails) =>
              /\ Count("Fail") = 1
              /\ tFailed
              /\ Returned
              /\ ret = "false"
              /\ (pc = "idle") => callerRet = "false"

C2_Witness ==
    /\ entry = "Check" /\ Fails /\ comparison.kind = "funcResult"
    /\ pc = "idle" /\ callerRet = "false" /\ calls < MaxCalls
    /\ Count("Fail") = 1

\* C3: a failing comparison of any shape under Assert calls t.FailNow() and
\* never t.Fail(); and when FailNow halts the test unit, no step of the engine
\* or of the test unit is taken after the FailNow call.
C3_AssertEscalation ==
    /\ [](entry = "Assert" =>
            /\ Count("Fail") = 0
            /\ (Over /\ Fails) => Count("FailNow") = 1 /\ tFailed
            /\ (tHalts /\ Count("FailNow") > 0) =>
                  pc = "halted" /\ ret = "none" /\ callerRet = "none")
    /\ [][(entry = "Assert" /\ tHalts /\ Count("FailNow") > 0) => UNCHANGED vars]_vars

C3_Witness ==
    /\ entry = "Assert" /\ Fails /\ comparison.kind = "legacy"
    /\ tHalts /\ pc = "halted" /\ Count("FailNow") = 1

\* C4: the value assert() returns is true iff the comparison succeeded (bool
\* true, legacy success flag true, Result is Success), and false otherwise.
C4_ReturnValue ==
    (Returned /\ Recognized) =>
        /\ ret \in {"true", "false"}
        /\ (ret = "true") <=> comparison.success
        /\ (entry = "Check" /\ pc = "idle") => callerRet = ret

C4_Witness ==
    /\ Returned /\ comparison.kind = "legacy" /\ comparison.success
    /\ entry = "Check" /\ pc = "idle" /\ callerRet = "true"

\* C5: when the comparison succeeds, whatever its shape, the engine calls
\* neither t.Log nor t.Fail nor t.FailNow, and the failed flag and the log of
\* the test context are as they were before the call.
C5_SuccessIsSilent ==
    Succeeds =>
        /\ Count("Log") = 0
        /\ Count("Fail") = 0
        /\ Count("FailNow") = 0
        /\ tLog = preLog
        /\ tFailed = preFailed

C5_Witness ==
    /\ Succeeds /\ Over /\ comparison.kind = "legacy"
    /\ preLog # <<>> /\ preFailed /\ tLog = preLog

\* C6: a comparison of an unrecognized type makes the engine panic; t.Log,
\* t.Fail and t.FailNow are never called and no boolean is returned, under
\* Assert as under Check.
C6_UnrecognizedPanics ==
    (Called /\ ~Recognized) =>
        /\ Count("Log") = 0
        /\ Count("Fail") = 0
        /\ Count("FailNow") = 0
        /\ tLog = preLog /\ tFailed = preFailed
        /\ ret = "none" /\ callerRet = "none"
        /\ pc \in {"assert", "panicked"}
        /\ (pc = "panicked") <=> (Count("panic") = 1)

C6_Witness ==
    /\ Called /\ ~Recognized /\ entry = "Check"
    /\ pc = "panicked" /\ Count("panic") = 1

\* C7: when a false bool is asserted and source-expression recovery returns an
\* error, the engine does not propagate the error (no panic, nothing but false
\* returned), still invokes the failer and reports false, and what it logs is
\* non-empty and includes the raw error text.
C7_RecoveryDegradation ==
    (Over /\ comparison.kind = "bool" /\ ~comparison.success /\ RecoveryFailed) =>
        /\ pc # "panicked" /\ Count("panic") = 0
        /\ Count(failer) = 1
        /\ tFailed
        /\ ret # "true" /\ callerRet # "true"
        /\ Returned => ret = "false"
        /\ Logged # <<>>
        /\ \A i \in DOMAIN Logged : Logged[i] # <<>>
        /\ \E i \in DOMAIN Logged : Contains(Logged[i], RecoveryError)

C7_Witness ==
    /\ Over /\ comparison.kind = "bool" /\ ~comparison.success /\ RecoveryFailed
    /\ entry = "Check" /\ pc = "idle" /\ callerRet = "false"
    /\ Contains(Logged[1], "failed to read source file")

\* The call Equal(t, 1, 2).
EqualOneTwo == entry = "Equal" /\ comparison = cmpEqual(1, 2)

\* C8 as stated: Equal applied to 1 and 2 logs a message containing both 1 and
\* 2, calls t.Fail() (not t.FailNow()) and returns false to its caller.
C8_EqualChecks ==
    (Over /\ EqualOneTwo) =>
        /\ \E i \in DOMAIN Logged : Contains(Logged[i], "1") /\ Contains(Logged[i], "2")
        /\ Count("Fail") = 1
        /\ Count("FailNow") = 0
        /\ (pc = "idle") => callerRet = "false"

\* C8 amended: Equal applied to 1 and 2 logs a message containing both 1 and
\* 2, calls t.FailNow() exactly once (never t.Fail()) and hands no value back
\* to its caller.
C8_EqualAsserts ==
    (Over /\ EqualOneTwo) =>
        /\ \E i \in DOMAIN Logged : Contains(Logged[i], "1") /\ Contains(Logged[i], "2")
        /\ Count("FailNow") = 1
        /\ Count("Fail") = 0
        /\ tFailed
        /\ callerRet = "none"
        /\ tHalts => pc = "halted"

C8_Witness ==
    /\ Over /\ EqualOneTwo /\ Count("FailNow") = 1
    /\ Len(Logged) = 1 /\ Contains(Logged[1], "1") /\ Contains(Logged[1], "2")

\* C9: a legacy comparison function returning (false, msg) is invoked exactly
\* once, exactly one t.Log call is made, its text is "assertion failed: "
\* followed by msg (merged with the extra message parts), and source-expression
\* recovery is never invoked.
C9_LegacyFailure ==
    (Fails /\ comparison.kind = "legacy") =>
        /\ Count("FormattedCallExprArg") = 0
        /\ Count("f") <= 1
        /\ Over =>
              /\ Count("f") = 1
              /\ Count("Log") = 1
              /\ Len(Logged) = 1
              /\ Logged[1][1] = "assertion failed: "
              /\ SubSeq(Logged[1], 2, 1 + Len(comparison.message)) = comparison.message
              /\ Logged[1] = WithCustomMessage(<<"assertion failed: ">> \o comparison.message,
                                               msgAndArgs)

C9_Witness ==
    /\ Fails /\ comparison.kind = "legacy" /\ Over
    /\ msgAndArgs # <<>>
    /\ Logged = << <<"assertion failed: ", "msg", " ", "context">> >>

\* C10: in every failing call every t.Log call comes strictly before the
\* escalation call (t.Fail or t.FailNow), none comes after it, and the
\* escalation is never invoked without a log of the failure before it.
C10_LogBeforeEscalation ==
    /\ \A i \in DOMAIN events :
          events[i].op \in {"Fail", "FailNow"} =>
              /\ \E j \in 1..(i - 1) : events[j].op = "Log" /\ events[j].msg # <<>>
              /\ \A j \in DOMAIN events : events[j].op = "Log" => j < i
    /\ (Over /\ Fails) => Count("Fail") + Count("FailNow") = 1

C10_Witness ==
    /\ Over /\ Fails /\ comparison.kind = "bool" /\ RecoveryFailed
    /\ Len(events) >= 3
    /\ events[Len(events)].op = "FailNow"
    /\ events[Len(events) - 1].op = "Log"
    /\ events[Len(events) - 2].op = "Log"

====
